---- MODULE Spec2Model ----
(***************************************************************************)
(* State-machine model of the FragmentViewer session of                    *)
(* frontend/src/main.ts: the loaded-model collection, the per-element      *)
(* visibility kept by the rendering engine, the hiddenCategories registry  *)
(* kept in localStorage, the cameraSettings record and the camera.         *)
(*                                                                         *)
(* Units.  Box coordinates, thresholds, minimumDistance and farPlane are   *)
(* whole model units.  Multipliers and height offsets are tenths (5.0 is   *)
(* 50).  nearPlane, camera.near, camera.far and logged distances are       *)
(* thousandths.  Camera positions and targets are 1/800 of a unit, the     *)
(* smallest grid on which every product the code forms (0.9, 0.8, 0.7,     *)
(* x.5 multipliers, box centres) is a whole number.                        *)
(***************************************************************************)
EXTENDS Integers, Sequences, FiniteSets, TLC

VARIABLES
  loadedModels,     \* FragmentViewer.loadedModels: sequence of [model, fileName]
  hiddenItems,      \* engine state: model handle -> set of hidden local ids
  hiddenCategories, \* localStorage 'hiddenCategories': the keys stored as true
  cameraSettings,   \* FragmentViewer.cameraSettings
  camera,           \* world.camera: position, target, near, far
  last,             \* log of the last toggle or bulk handler; a load, removal
                    \* or clear after it resets the log
  prev,             \* the toggle logged before last, when last is a toggle of
                    \* the same category that directly followed it
  fitLog,           \* what the last camera operation computed
  propertiesContent,\* what the properties panel shows
  returned,         \* the object the last getCameraSettings call gave its caller
  ready,            \* the waitForModelReady call in progress
  picks,            \* the click handlers in flight, in the order they started
  newestPick,       \* outcome of the completed click that started last
  status,           \* the status line (SimpleUI.statusElement)
  loadedFiles,      \* the items of the loaded-files list, each with the model
                    \* its remove button is bound to
  scene,            \* handles whose object is a child of world.scene.three
  toggles,          \* the toggleCategoryVisibility calls suspended in hider.set
  loads             \* the loadFragmentFile calls suspended after their push

vars == <<loadedModels, hiddenItems, hiddenCategories, cameraSettings, camera,
          last, prev, fitLog, propertiesContent, returned, ready, picks,
          newestPick, status, loadedFiles, scene, toggles, loads>>

\* ------------------------------------------------------------------------
\* Bounds of the model
\* ------------------------------------------------------------------------
\* Largest number of simultaneously loaded models.
MaxModels == 2

\* Largest number of click handlers in flight at once.
MaxPicks == 2

\* Largest number of category toggles suspended at once.
MaxToggles == 2

\* Largest number of loads suspended at once.
MaxLoads == 2

\* ------------------------------------------------------------------------
\* Category names: strings as sequences of characters, so that
\* toLowerCase and replace are computed and not assumed.
\* ------------------------------------------------------------------------
IFCWALL == <<"I", "F", "C", "W", "A", "L", "L">>
IFCDOOR == <<"I", "F", "C", "D", "O", "O", "R">>
LowerWall == <<"i", "f", "c", "w", "a", "l", "l">>
BareWall == <<"W", "A", "L", "L">>
BareLowerDoor == <<"d", "o", "o", "r">>

\* The categories the toggle buttons pass (two of the six buttons).
ButtonCategories == {IFCWALL, IFCDOOR}

LowerOf ==
  ("A" :> "a") @@ ("C" :> "c") @@ ("D" :> "d") @@ ("F" :> "f") @@ ("I" :> "i") @@
  ("L" :> "l") @@ ("O" :> "o") @@ ("R" :> "r") @@ ("W" :> "w")

\* String.prototype.toLowerCase
ToLowerCase(s) ==
  [i \in 1..Len(s) |-> IF s[i] \in DOMAIN LowerOf THEN LowerOf[s[i]] ELSE s[i]]

SetMin(S) == CHOOSE x \in S : \A y \in S : x <= y

\* String.prototype.replace('IFC', ''): removes the first occurrence only,
\* wherever it stands.
ReplaceIFC(s) ==
  LET at == {i \in 1..(Len(s) - 2) : s[i] = "I" /\ s[i + 1] = "F" /\ s[i + 2] = "C"}
  IN  IF at = {} THEN s
      ELSE LET i == SetMin(at)
           IN  SubSeq(s, 1, i - 1) \o SubSeq(s, i + 3, Len(s))

\* The fallback's list of name variations, in the order it tries them.
Variations(category) ==
  << category,
     ToLowerCase(category),
     ReplaceIFC(category),
     ToLowerCase(ReplaceIFC(category)) >>

\* ------------------------------------------------------------------------
\* Boxes (THREE.Box3)
\* ------------------------------------------------------------------------
Max2(a, b) == IF a >= b THEN a ELSE b
Min2(a, b) == IF a <= b THEN a ELSE b

\* new THREE.Box3(): min = +Infinity, max = -Infinity
EmptyBox == [empty |-> TRUE, min |-> <<0, 0, 0>>, max |-> <<0, 0, 0>>]

Box(lo, hi) == [empty |-> FALSE, min |-> lo, max |-> hi]

\* Mutant: no box is ever reported empty.
IsEmptyNever(b) == FALSE

\* Box3.isEmpty
IsEmpty(b) == b.empty

\* Mutant: the union keeps the first operand.
UnionKeepsFirst(a, b) == IF a.empty THEN b ELSE a

\* Box3.union: component-wise min of the mins and max of the maxes; an
\* empty operand (infinite corners) leaves the other unchanged.
Union(a, b) ==
  IF a.empty THEN b
  ELSE IF b.empty THEN a
  ELSE [empty |-> FALSE,
        min |-> [i \in 1..3 |-> Min2(a.min[i], b.min[i])],
        max |-> [i \in 1..3 |-> Max2(a.max[i], b.max[i])]]

\* Box3.getSize: zero for an empty box
GetSize(b) == IF b.empty THEN <<0, 0, 0>> ELSE [i \in 1..3 |-> b.max[i] - b.min[i]]

\* Box3.getCenter, in 1/800 units: (min + max) / 2
GetCenter(b) ==
  IF b.empty THEN <<0, 0, 0>> ELSE [i \in 1..3 |-> 400 * (b.min[i] + b.max[i])]

\* Math.max(size.x, size.y, size.z)
MaxDimOf(b) == LET s == GetSize(b) IN Max2(s[1], Max2(s[2], s[3]))

RECURSIVE UnionAll(_)
UnionAll(boxes) ==
  IF boxes = <<>> THEN EmptyBox ELSE Union(Head(boxes), UnionAll(Tail(boxes)))

\* ------------------------------------------------------------------------
\* The fragment files offered to the viewer and what their model handles
\* expose.  The handles are duck-typed: every capability may be absent.
\* ------------------------------------------------------------------------
AllCaps == {"object", "boundingBoxes", "getItemsOfCategories", "setVisible",
            "isVisible", "toggleVisible", "getItemsByVisibility", "raycast",
            "getItemsData"}

\* file name |-> [box, items, indexed, caps]
\*   box     : extent of model.object (Box3.setFromObject / getMergedBox)
\*   items   : local id |-> category name stored in the model
\*   indexed : whether the Classifier component knows the model's entities
\*   caps    : the methods and fields the handle has
Catalogue ==
  [ cube  |-> [box |-> Box(<<0, 0, 0>>, <<100, 100, 100>>),
               items |-> (1 :> IFCWALL) @@ (2 :> IFCWALL) @@ (3 :> IFCDOOR),
               indexed |-> TRUE,
               caps |-> AllCaps \ {"boundingBoxes"}],
    annex |-> [box |-> Box(<<200, 0, 0>>, <<300, 50, 50>>),
               items |-> (1 :> IFCWALL) @@ (2 :> BareLowerDoor),
               indexed |-> FALSE,
               caps |-> AllCaps \ {"getItemsData"}],
    point |-> [box |-> Box(<<5, 5, 5>>, <<5, 5, 5>>),
               items |-> (1 :> BareWall),
               indexed |-> FALSE,
               caps |-> AllCaps \ {"isVisible", "boundingBoxes"}],
    tower |-> [box |-> Box(<<0, 0, 0>>, <<600, 3000, 600>>),
               items |-> (1 :> IFCWALL) @@ (2 :> IFCWALL),
               indexed |-> TRUE,
               caps |-> AllCaps \ {"setVisible", "getItemsByVisibility"}],
    shell |-> [box |-> EmptyBox,
               items |-> (1 :> LowerWall) @@ (2 :> BareWall),
               indexed |-> FALSE,
               caps |-> AllCaps \ {"object", "boundingBoxes", "raycast"}] ]

FileNames == DOMAIN Catalogue

Has(e, cap) == cap \in Catalogue[e.fileName].caps
ItemsOf(e) == Catalogue[e.fileName].items

\* Model handles are object identities with no meaning of their own: the
\* model names a handle by the place of its entry in loadedModels and renames
\* the handles of the later entries when an entry is removed.
Handles == 1..MaxModels
HandlesInUse == {loadedModels[i].model : i \in 1..Len(loadedModels)}
FreshHandle == Len(loadedModels) + 1

Entries == {loadedModels[i] : i \in 1..Len(loadedModels)}

\* ------------------------------------------------------------------------
\* Camera settings and camera
\* ------------------------------------------------------------------------
\* The initial value of FragmentViewer.cameraSettings.
DefaultSettings ==
  [ nearPlane               |-> 100,     \* 0.1, in thousandths
    farPlane                |-> 50000,
    closeFitMultiplier      |-> 50,      \* 5.0, in tenths
    farFitMultiplier        |-> 80,      \* 8.0, in tenths
    closeHeightOffset       |-> 20,      \* 2.0, in tenths
    farHeightOffset         |-> 30,      \* 3.0, in tenths
    minimumDistance         |-> 200,
    mediumModelThreshold    |-> 100,
    largeModelThreshold     |-> 500,
    veryLargeModelThreshold |-> 1000 ]

\* The Partial<cameraSettings> arguments updateCameraSettings is called with
\* (the settings panel's sliders allow farPlane 1000..100000, multipliers
\* 1..20 and minimumDistance 50..1000).
SettingsUpdates ==
  { [k \in {} |-> 0],
    [farPlane |-> 1000],
    [minimumDistance |-> 50, closeFitMultiplier |-> 10] }

\* updateCameraSettings arguments that move the size thresholds, out of
\* increasing order among them.
ThresholdUpdates ==
  { [veryLargeModelThreshold |-> 3000],
    [veryLargeModelThreshold |-> 50],
    [mediumModelThreshold |-> 1000, largeModelThreshold |-> 200] }

\* Mutant: the assignment resets the fields the source does not name.
ObjectAssignResets(target, source) ==
  [k \in DOMAIN target |-> IF k \in DOMAIN source THEN source[k] ELSE DefaultSettings[k]]

\* Object.assign(target, source)
ObjectAssign(target, source) ==
  [k \in DOMAIN target |-> IF k \in DOMAIN source THEN source[k] ELSE target[k]]

At(x, y, z) == [nan |-> FALSE, at |-> <<x, y, z>>]
\* A position whose coordinates are NaN.
NaNPosition == [nan |-> TRUE, at |-> <<0, 0, 0>>]

\* setupScene: position (50,50,50) looking at the origin, clipping planes
\* taken from the settings.
InitialCamera ==
  [ position |-> At(50 * 800, 50 * 800, 50 * 800),
    target   |-> <<0, 0, 0>>,
    near     |-> DefaultSettings.nearPlane,
    far      |-> DefaultSettings.farPlane * 1000 ]

NoFit == [op |-> "none", positioned |-> FALSE, maxDim |-> 0, scale |-> 0,
          base |-> 0, distance |-> 0, center |-> <<0, 0, 0>>, box |-> EmptyBox]

Skipped(op) == [NoFit EXCEPT !.op = op]

\* --- fitCameraToModels ---------------------------------------------------

\* The forEach of fitCameraToModels: boxes of the models that have an
\* Object3D and a non-empty extent.
ObjectBoxes(models) ==
  [i \in 1..Len(models) |->
     IF Has(models[i], "object") /\ ~IsEmpty(Catalogue[models[i].fileName].box)
     THEN Catalogue[models[i].fileName].box
     ELSE EmptyBox]

\* Mutant: the minimum-distance floor is dropped.
BaseDistanceNoFloor(maxDim, distanceMultiplier, settings) ==
  maxDim * distanceMultiplier

\* Math.max(maxDim * distanceMultiplier, minimumDistance), in tenths.
BaseDistance(maxDim, distanceMultiplier, settings) ==
  Max2(maxDim * distanceMultiplier, settings.minimumDistance * 10)

\* Mutant: every threshold exceeded multiplies the scale.
ModelScaleCompounds(maxDim, settings) ==
  LET s0 == 1
      s1 == IF maxDim > settings.mediumModelThreshold THEN s0 * 2 ELSE s0
      s2 == IF maxDim > settings.largeModelThreshold THEN s1 * 3 ELSE s1
      s3 == IF maxDim > settings.veryLargeModelThreshold THEN s2 * 4 ELSE s2
  IN  s3

\* Mutant: the thresholds are compared with >= instead of >.
ModelScaleInclusive(maxDim, settings) ==
  LET s0 == 1
      s1 == IF maxDim >= settings.mediumModelThreshold THEN 2 ELSE s0
      s2 == IF maxDim >= settings.largeModelThreshold THEN 3 ELSE s1
      s3 == IF maxDim >= settings.veryLargeModelThreshold THEN 4 ELSE s2
  IN  s3

\* The three sequential ifs on the thresholds.
ModelScale(maxDim, settings) ==
  LET s0 == 1
      s1 == IF maxDim > settings.mediumModelThreshold THEN 2 ELSE s0
      s2 == IF maxDim > settings.largeModelThreshold THEN 3 ELSE s1
      s3 == IF maxDim > settings.veryLargeModelThreshold THEN 4 ELSE s2
  IN  s3

\* What fitCameraToModels(wide) does to the camera; fit is the log entry.
FitCameraToModelsResult(wide, settings, models, cam) ==
  LET op          == IF wide THEN "far" ELSE "close"
      combinedBox == UnionAll(ObjectBoxes(models))
      hasBox      == ~IsEmpty(combinedBox)
      center      == GetCenter(combinedBox)
      maxDim      == MaxDimOf(combinedBox)
      distanceMultiplier ==
        IF wide THEN settings.farFitMultiplier ELSE settings.closeFitMultiplier
      cameraOffset ==
        IF wide THEN settings.farHeightOffset ELSE settings.closeHeightOffset
      baseDistance  == BaseDistance(maxDim, distanceMultiplier, settings)
      modelScale    == ModelScale(maxDim, settings)
      finalDistance == baseDistance * modelScale
      cameraPosition ==
        At(center[1] + finalDistance * 72,                \* * 0.9
           center[2] + finalDistance * cameraOffset * 8,  \* * cameraOffset
           center[3] + finalDistance * 64)                \* * 0.8
  IN  IF Len(models) = 0 \/ ~hasBox
      THEN [camera |-> cam, fit |-> Skipped(op)]
      ELSE [camera |-> [cam EXCEPT !.position = cameraPosition,
                                   !.target = center],
            fit |-> [op |-> op, positioned |-> TRUE, maxDim |-> maxDim,
                     scale |-> modelScale, base |-> baseDistance * 100,
                     distance |-> finalDistance * 100, center |-> center,
                     box |-> combinedBox]]

\* --- fitAllModelsToView --------------------------------------------------

\* The per-model loop of fitAllModelsToView: the merged box when the handle
\* has boundingBoxes (pushed even when empty), else the object's box when
\* it is not empty; a handle with neither throws inside the inner try and
\* is skipped.
FitAllBoxes(models) ==
  [i \in 1..Len(models) |->
     LET e == models[i]
     IN  IF Has(e, "boundingBoxes") THEN Catalogue[e.fileName].box
         ELSE IF Has(e, "object") THEN Catalogue[e.fileName].box
         ELSE EmptyBox]

\* maxDim / (2 * tan(fov * PI / 360)) * 1.5 for the 60 degree field of view,
\* in thousandths: 1.5 * sqrt(3) / 2 = 1.2990...
FitDistance(maxDim) == (maxDim * 1299)

\* The far-plane adjustment of fitAllModelsToView, in thousandths.
FitAllFar(far, distance, maxDim, settings) ==
  LET requiredFarPlane == distance + maxDim * 1000
  IN  IF far < requiredFarPlane
      THEN Max2((requiredFarPlane * 12) \div 10, settings.farPlane * 1000)
      ELSE far

\* center + distance * (0.7, 0.8, 0.7) * Math.max(1.0, distance / maxDim).
\* distance / maxDim is 1.5 * sqrt(3) / 2 and its square is 1.6875, so the
\* offsets are maxDim * 1.18125 and maxDim * 1.35 exactly; for maxDim = 0
\* the quotient is 0 / 0 = NaN, Math.max(1.0, NaN) is NaN and so is 0 * NaN.
FitAllPosition(center, maxDim) ==
  IF maxDim = 0 THEN NaNPosition
  ELSE At(center[1] + maxDim * 945, center[2] + maxDim * 1080,
          center[3] + maxDim * 945)

FitAllModelsToViewResult(settings, models, cam) ==
  LET combinedBox == UnionAll(FitAllBoxes(models))
      center      == GetCenter(combinedBox)
      maxDim      == MaxDimOf(combinedBox)
      distance    == FitDistance(maxDim)
  IN  IF Len(models) = 0 \/ IsEmpty(combinedBox)
      THEN [camera |-> cam, fit |-> Skipped("fitAll")]
      ELSE [camera |-> [cam EXCEPT
                          !.far = FitAllFar(cam.far, distance, maxDim, settings),
                          !.position = FitAllPosition(center, maxDim),
                          !.target = center],
            fit |-> [op |-> "fitAll", positioned |-> TRUE, maxDim |-> maxDim,
                     scale |-> 1, base |-> distance, distance |-> distance,
                     center |-> center, box |-> combinedBox]]

\* --- setCameraPreset -----------------------------------------------------
Views == {"top", "front", "side", "isometric"}

\* center plus the view's offset, distance = maxDim * 2.
PresetPosition(view, center, maxDim) ==
  LET distance == maxDim * 2 * 800
      iso      == maxDim * 2 * 560       \* distance * 0.7
  IN  CASE view = "top"       -> At(center[1], center[2] + distance, center[3])
        [] view = "front"     -> At(center[1], center[2], center[3] + distance)
        [] view = "side"      -> At(center[1] + distance, center[2], center[3])
        [] view = "isometric" -> At(center[1] + iso, center[2] + iso, center[3] + iso)

\* Box3.setFromObject(model.object) is called for every model without a
\* capability check: a handle without object throws, and the one try block
\* around the whole body abandons the operation.
SetCameraPresetResult(view, models, cam) ==
  LET throws      == \E i \in 1..Len(models) : ~Has(models[i], "object")
      boxes       == [i \in 1..Len(models) |-> Catalogue[models[i].fileName].box]
      combinedBox == UnionAll(boxes)
      center      == GetCenter(combinedBox)
      maxDim      == MaxDimOf(combinedBox)
  IN  IF Len(models) = 0 \/ throws \/ IsEmpty(combinedBox)
      THEN [camera |-> cam, fit |-> Skipped(view)]
      ELSE [camera |-> [cam EXCEPT !.position = PresetPosition(view, center, maxDim),
                                   !.target = center],
            fit |-> [op |-> view, positioned |-> TRUE, maxDim |-> maxDim,
                     scale |-> 1, base |-> maxDim * 2000,
                     distance |-> maxDim * 2000, center |-> center,
                     box |-> combinedBox]]

\* ------------------------------------------------------------------------
\* Category visibility
\* ------------------------------------------------------------------------
RECURSIVE SumSizes(_, _)
SumSizes(f, D) ==
  IF D = {} THEN 0
  ELSE LET d == CHOOSE x \in D : TRUE
       IN  Cardinality(f[d]) + SumSizes(f, D \ {d})

\* classifier.find({entities: [category]}): for every model the classifier
\* knows, the local ids whose entity is exactly the category.
ClassifierFind(category, models) ==
  LET known == {e \in {models[i] : i \in 1..Len(models)} :
                  Catalogue[e.fileName].indexed}
  IN  [h \in {e.model : e \in known} |->
         LET e == CHOOSE x \in known : x.model = h
         IN  {id \in DOMAIN ItemsOf(e) : ItemsOf(e)[id] = category}]

\* Mutant: counts the models of the result instead of their items.
TotalItemsCountsModels(result) == Cardinality(DOMAIN result)

\* The loop that adds up itemIds.size over the result.
TotalItems(result) == SumSizes(result, DOMAIN result)

\* hider.set(visible, result): sets, never inverts.
HiderSet(visible, result, hidden) ==
  [h \in DOMAIN hidden |->
     IF h \in DOMAIN result
     THEN IF visible THEN hidden[h] \ result[h] ELSE hidden[h] \cup result[h]
     ELSE hidden[h]]

\* Mutant: the show branch forgets to delete the key.
RegistryKeepsKey(registry, category, categoryCurrentlyHidden) ==
  registry \cup {category}

\* The registry written by the primary branch: delete the key after showing,
\* set it to true after hiding.
RegistryAfterToggle(registry, category, categoryCurrentlyHidden) ==
  IF categoryCurrentlyHidden THEN registry \ {category}
  ELSE registry \cup {category}

\* model.getItemsOfCategories([variation])[variation] || []
GetItemsOfCategories(e, variation) ==
  {id \in DOMAIN ItemsOf(e) : ItemsOf(e)[id] = variation}

\* Mutant: the last variation that yields items wins.
WinningVariationLast(e, category) ==
  LET vs   == Variations(category)
      hits == {k \in 1..Len(vs) : GetItemsOfCategories(e, vs[k]) # {}}
  IN  IF ~Has(e, "getItemsOfCategories") \/ hits = {} THEN 0
      ELSE CHOOSE k \in hits : \A j \in hits : j <= k

\* Index of the first variation that yields items in the model, 0 if none
\* does or the handle lacks getItemsOfCategories.
WinningVariation(e, category) ==
  LET vs   == Variations(category)
      hits == {k \in 1..Len(vs) : GetItemsOfCategories(e, vs[k]) # {}}
  IN  IF ~Has(e, "getItemsOfCategories") \/ hits = {} THEN 0 ELSE SetMin(hits)

\* Index of the model at which the fallback returns: the first model, in
\* load order, with a winning variation; 0 if the loops run out.
FallbackModel(category, models) ==
  LET hits == {i \in 1..Len(models) : WinningVariation(models[i], category) # 0}
  IN  IF hits = {} THEN 0 ELSE SetMin(hits)

\* setVisible(itemIds, !isVisible(itemIds[0])), or toggleVisible(itemIds),
\* or nothing when the handle has neither method.
FallbackVisibility(e, itemIds, hiddenOfModel) ==
  IF Has(e, "setVisible")
  THEN LET isVisible == IF Has(e, "isVisible")
                        THEN SetMin(itemIds) \notin hiddenOfModel
                        ELSE TRUE
       IN  IF ~isVisible THEN hiddenOfModel \ itemIds
           ELSE hiddenOfModel \cup itemIds
  ELSE IF Has(e, "toggleVisible")
  THEN (hiddenOfModel \ itemIds) \cup (itemIds \ hiddenOfModel)
  ELSE hiddenOfModel

\* toggleCategoryVisibilityFallback: acts on one model and returns.
ToggleCategoryVisibilityFallback(category, models, hidden) ==
  LET i == FallbackModel(category, models)
  IN  IF i = 0 THEN hidden
      ELSE LET e       == models[i]
               v       == Variations(category)[WinningVariation(e, category)]
               itemIds == GetItemsOfCategories(e, v)
           IN  [hidden EXCEPT ![e.model] = FallbackVisibility(e, itemIds, @)]

\* The getItemsOfCategories calls of the fallback on the model at place i,
\* each as <<place of the model, index of the variation>>: the variations in
\* order up to the first that yields items, none for a handle without the
\* method.
QueriesOn(e, i, category) ==
  IF ~Has(e, "getItemsOfCategories") THEN <<>>
  ELSE LET w == WinningVariation(e, category)
       IN  [k \in 1..(IF w = 0 THEN Len(Variations(category)) ELSE w) |-> <<i, k>>]

\* The calls of the fallback from the model at place i on, in the order it
\* makes them: it returns after the first model with a winning variation.
RECURSIVE QueriesFrom(_, _, _)
QueriesFrom(category, models, i) ==
  IF i > Len(models) THEN <<>>
  ELSE IF WinningVariation(models[i], category) # 0
  THEN QueriesOn(models[i], i, category)
  ELSE QueriesOn(models[i], i, category) \o QueriesFrom(category, models, i + 1)

FallbackQueries(category, models) == QueriesFrom(category, models, 1)

\* Mutant: the primary branch is taken for an empty result too.
PrimaryMatchesAlways(totalItems) == totalItems >= 0

\* The test that sends the toggle into its primary branch.
PrimaryMatches(totalItems) == totalItems > 0

\* ------------------------------------------------------------------------
\* Handler log
\* ------------------------------------------------------------------------
NoReturn == [defined |-> FALSE, value |-> 0]

\*   tried  : the getItemsOfCategories calls a toggle's fallback made
\*   during : the categories whose registry flag other toggles wrote while
\*            this toggle was suspended in hider.set
\*   pair   : "overlapped" when exactly one toggle of the same category
\*            wrote the registry while this one was suspended, itself
\*            undisturbed and having read the same flag; "spoiled" for any
\*            other write to the category in that time; else "none"
Logged(op) ==
  [op |-> op, cat |-> <<>>, route |-> "-", count |-> 0, ret |-> NoReturn,
   hiddenBefore |-> FALSE, tried |-> <<>>, during |-> {}, pair |-> "none"]

\* The log entry of a toggle.
ToggleLogged(category, route, count, hiddenBefore, tried, during, pair) ==
  [op |-> "toggle", cat |-> category, route |-> route, count |-> count,
   ret |-> NoReturn, hiddenBefore |-> hiddenBefore, tried |-> tried,
   during |-> during, pair |-> pair]

\* getCameraSettings has not been called.
NothingReturned == [called |-> FALSE, settings |-> DefaultSettings]

\* ------------------------------------------------------------------------
\* Status line
\* ------------------------------------------------------------------------
\* kind "ready"   : Ready - Drop .frag files to view them
\*      "loading" : Loading <fileName>...
\*      "loaded"  : Loaded <fileName> (<count> total)
\*      "failed"  : Failed to load <fileName>: <error message>
\*      "removed" : Removed model (<count> remaining)
\*      "cleared" : All fragments cleared
\* Mutant: every status reads as a successful load.
StatusAlwaysLoaded(kind, fileName, count) ==
  [kind |-> "loaded", fileName |-> fileName, count |-> count]

Status(kind, fileName, count) ==
  [kind |-> kind, fileName |-> fileName, count |-> count]

\* ------------------------------------------------------------------------
\* waitForModelReady
\* ------------------------------------------------------------------------
\* const checkInterval = 50, in milliseconds.
CheckInterval == 50

\* The default of the maxWaitTime parameter, in milliseconds.
DefaultMaxWaitTime == 5000

\* The maxWaitTime arguments of the modelled calls.
WaitTimes == {0, 3 * CheckInterval, DefaultMaxWaitTime}

\* What a model handle does while it is waited for.
\*   check    : "throws" when reading model.object throws
\*   children : geometry among model.object.children is "present" from the
\*              start, arrives "late", or "never" arrives
\*   merged   : model.boundingBoxes is "absent", or getMergedBox resolves
\*              with a "valid" box, resolves with an "empty" box, "rejects",
\*              or "throws" when called
Behaviours ==
  {[check |-> "ok", children |-> c, merged |-> m] :
     c \in {"present", "late", "never"},
     m \in {"absent", "valid", "empty", "rejects", "throws"}}
  \cup {[check |-> "throws", children |-> "never", merged |-> "absent"]}

\* No wait in progress.
IdleReady ==
  [phase |-> "idle",
   behaviour |-> [check |-> "ok", children |-> "never", merged |-> "absent"],
   maxWaitTime |-> 0,
   elapsed |-> 0,            \* Date.now() - startTime
   due |-> 0,                \* elapsed time at which the pending timer is due
   geometry |-> FALSE,       \* a child with a non-empty position attribute exists
   inFlight |-> FALSE,       \* a getMergedBox promise has not settled yet
   resolved |-> FALSE,       \* resolve() has been called
   resolvedBy |-> "none",    \* the call that resolved: "poll", "merged", "timeout"
   timeoutWarned |-> FALSE,  \* the timed-out warning has been logged
   presentAtFirstPoll |-> FALSE]

\* Mutant: the elapsed time is never found to exceed the wait.
TimedOutNever(elapsedTime, maxWaitTime) == FALSE

\* elapsedTime > maxWaitTime
TimedOut(elapsedTime, maxWaitTime) == elapsedTime > maxWaitTime

\* setTimeout(checkReady, checkInterval)
Reschedule(r) == [r EXCEPT !.due = r.elapsed + CheckInterval]

\* resolve(); return  inside checkReady: the poll loop ends.  by names the
\* place of the call; only the first resolve() of a promise has an effect.
ResolveAtPoll(r, by) ==
  [r EXCEPT !.phase = "stopped",
            !.resolved = TRUE,
            !.resolvedBy = IF r.resolved THEN @ ELSE by]

\* One run of checkReady.
CheckReady(r) ==
  IF TimedOut(r.elapsed, r.maxWaitTime)
  THEN [ResolveAtPoll(r, "timeout") EXCEPT !.timeoutWarned = TRUE]
  ELSE IF r.behaviour.check = "throws"
  THEN Reschedule(r)                       \* caught, warned, next poll
  ELSE IF r.geometry
  THEN ResolveAtPoll(r, "poll")
  ELSE IF r.behaviour.merged \in {"absent", "throws"}
  THEN Reschedule(r)
  ELSE [Reschedule(r) EXCEPT !.inFlight = TRUE]

\* ------------------------------------------------------------------------
\* Properties panel
\* ------------------------------------------------------------------------
\* kind: "initial" (the panel as created), "nothing" (the click placeholder)
\* or "component" (the details of localId of the model loaded from fileName).
Panel(kind, fileName, localId) ==
  [kind |-> kind, fileName |-> fileName, localId |-> localId]

\* What model.raycast can do for one click.
RayOutcomes == {"miss", "throws", "hit"}

\* The local id a hitting ray reports.
HitItem(e) == SetMin(DOMAIN ItemsOf(e))

\* The loop of the click handler: models in load order, those without
\* raycast skipped, a throwing raycast caught; index of the first model that
\* reports a hit, 0 if none.
FirstHit(models, ray) ==
  LET hits == {i \in 1..Len(models) :
                 Has(models[i], "raycast") /\ ray[models[i].model] = "hit"}
  IN  IF hits = {} THEN 0 ELSE SetMin(hits)

\* --- the click handler, await by await -----------------------------------

\* The rays of the modelled clicks: what the raycast of each handle does.
PickRays ==
  { [h \in Handles |-> "miss"],
    [h \in Handles |-> "hit"],
    [h \in Handles |-> IF h = 1 THEN "throws" ELSE "hit"],
    [h \in Handles |-> IF h = 1 THEN "miss" ELSE "hit"] }

\* The rays of the clicks on a model whose raycast throws.
PickErrorRays ==
  { [h \in Handles |-> IF h = 1 THEN "throws" ELSE "hit"],
    [h \in Handles |-> "throws"] }

\* Mutant: the loop does not skip the handles without raycast.
NextRaycastNoSkip(models, i) == i

\* for (const {model, fileName} of this.loadedModels) with
\* if (!model.raycast) continue: the next index from i on whose handle has
\* raycast, Len(models) + 1 when the loop runs out.
NextRaycast(models, i) ==
  LET able == {j \in i..Len(models) : Has(models[j], "raycast")}
  IN  IF able = {} THEN Len(models) + 1 ELSE SetMin(able)

\* Mutant: a raycast that throws ends the loop.
OnRaycastErrorBreaks(models, i) == Len(models) + 1

\* catch (error) { ...; continue; } around the raycast of the model at
\* place i: the loop goes on with the next handle that has raycast.
OnRaycastError(models, i) == NextRaycast(models, i + 1)

\* A click handler suspended in an await.
\*   ray     : what the raycast of the model at each place of that array does
\*   models  : the array its for-of loop iterates
\*   live    : that array is still this.loadedModels, so pushes show in it
\*   at      : index of the model whose raycast or properties it awaits
\*   stage   : "raycast" or "fetch"
\*   queried : the indices whose raycast it has called, in order
\*   overtaken : a click started after it has already completed
Suspended(ray, models, at, queried) ==
  [ray |-> ray, models |-> models, live |-> TRUE, at |-> at, stage |-> "raycast",
   queried |-> queried, overtaken |-> FALSE]

\* loadedModels.push(entry): handlers iterating the array see the new entry.
PushSeen(inFlight, entry) ==
  [k \in 1..Len(inFlight) |->
     IF inFlight[k].live
     THEN [inFlight[k] EXCEPT !.models = Append(@, entry)]
     ELSE inFlight[k]]

\* The name of handle h once the handles in gone have left the collection
\* and the later entries have moved up: 0 for a handle that is not in the
\* collection any more.
Rehandled(h, gone) ==
  IF h = 0 \/ h \in gone THEN 0 ELSE h - Cardinality({g \in gone : g < h})

\* Entries that keep referring to their model objects across a removal.
Rehandle(entries, gone) ==
  [i \in 1..Len(entries) |->
     [entries[i] EXCEPT !.model = Rehandled(entries[i].model, gone)]]

\* this.loadedModels = <a new array>: handlers in flight keep the old one,
\* with the entries of the models that left the collection still in it.
ArrayReplaced(inFlight, gone) ==
  [k \in 1..Len(inFlight) |->
     [inFlight[k] EXCEPT !.live = FALSE,
                         !.models = Rehandle(inFlight[k].models, gone)]]

\* A classifier result whose keys keep referring to their models across a
\* removal; the removed models leave it.
Rekeyed(result, gone) ==
  LET kept == {h \in DOMAIN result : Rehandled(h, gone) # 0}
  IN  [n \in {Rehandled(h, gone) : h \in kept} |->
         result[CHOOSE h \in kept : Rehandled(h, gone) = n]]

\* The suspended toggles across a removal.
TogglesRekeyed(suspended, gone) ==
  [k \in 1..Len(suspended) |->
     [suspended[k] EXCEPT !.result = Rekeyed(suspended[k].result, gone)]]

\* The handlers in flight after handler k has completed: k leaves, the
\* handlers that started before it have been overtaken.
AfterCompletion(inFlight, k) ==
  [j \in 1..(Len(inFlight) - 1) |->
     IF j < k THEN [inFlight[j] EXCEPT !.overtaken = TRUE] ELSE inFlight[j + 1]]

\* ------------------------------------------------------------------------
\* Initial state: the viewer after init(), nothing loaded.  localStorage
\* outlives the page, so the registry may hold keys of an earlier session.
\* ------------------------------------------------------------------------
Init ==
  /\ loadedModels = <<>>
  /\ hiddenItems = [h \in Handles |-> {}]
  /\ hiddenCategories \in SUBSET {IFCWALL}
  /\ cameraSettings = DefaultSettings
  /\ camera = InitialCamera
  /\ last = Logged("none")
  /\ prev = Logged("none")
  /\ fitLog = NoFit
  /\ propertiesContent = Panel("initial", "", 0)
  /\ returned = NothingReturned
  /\ ready = IdleReady
  /\ picks = <<>>
  /\ newestPick = "none"
  /\ status = Status("ready", "", 0)
  /\ loadedFiles = <<>>
  /\ scene = {}
  /\ toggles = <<>>
  /\ loads = <<>>

\* ------------------------------------------------------------------------
\* Handlers
\* ------------------------------------------------------------------------
\* toggleCategoryVisibility(category).  finderThrows: classifier.find throws
\* and the catch block runs the fallback.
ToggleCategoryVisibility(category, finderThrows) ==
  LET result     == ClassifierFind(category, loadedModels)
      totalItems == TotalItems(result)
      categoryCurrentlyHidden == category \in hiddenCategories
      entry(route, count) ==
        ToggleLogged(category, route, count, categoryCurrentlyHidden,
                     IF route \in {"fallback", "none"}
                     THEN FallbackQueries(category, loadedModels) ELSE <<>>,
                     {}, "none")
  IN  /\ prev' = IF last.op = "toggle" /\ last.cat = category
                  THEN last ELSE Logged("none")
      /\ UNCHANGED <<loadedModels, cameraSettings, camera, fitLog,
                     propertiesContent, returned, ready, picks, newestPick,
                     status, loadedFiles, scene,
                     toggles, loads>>
      /\ IF Len(loadedModels) = 0
         THEN /\ last' = entry("noModels", 0)
              /\ UNCHANGED <<hiddenItems, hiddenCategories>>
         ELSE IF ~finderThrows /\ PrimaryMatches(totalItems)
         THEN /\ hiddenItems' = HiderSet(categoryCurrentlyHidden, result, hiddenItems)
              /\ hiddenCategories' =
                   RegistryAfterToggle(hiddenCategories, category,
                                       categoryCurrentlyHidden)
              /\ last' = entry("primary", totalItems)
         ELSE /\ hiddenItems' =
                   ToggleCategoryVisibilityFallback(category, loadedModels,
                                                    hiddenItems)
              /\ UNCHANGED hiddenCategories
              /\ last' = entry(IF FallbackModel(category, loadedModels) = 0
                               THEN "none" ELSE "fallback", 0)

\* --- toggleCategoryVisibility, await by await -----------------------------

\* A sequence without its k-th element.
Without(seq, k) ==
  [j \in 1..(Len(seq) - 1) |-> IF j < k THEN seq[j] ELSE seq[j + 1]]

\* Mutant: the registry written back is the copy parsed before the await.
StoredRegistryStale(stored, readBefore) == readBefore

\* JSON.parse(localStorage.getItem('hiddenCategories')) after the await:
\* the registry as it is stored now, not the copy parsed before the await.
StoredRegistry(stored, readBefore) == stored

\* A toggle suspended in await hider.set(visible, result).
\*   visible  : categoryCurrentlyHidden as read before the await, which is
\*              the flag passed to hider.set
\*   registry : the registry parsed before the await
\*   stage    : "hider" while the engine has not applied the request,
\*              "settled" once it has and the promise is about to resolve
\*   during   : the categories other toggles wrote while this one waited
\*   pair     : as in the log entry
SuspendedToggle(category, result, count, registry) ==
  [category |-> category, result |-> result, count |-> count,
   visible |-> category \in registry, registry |-> registry,
   stage |-> "hider", during |-> {}, pair |-> "none"]

\* Suspended toggle u after toggle t has written the registry.
Overlapped(u, t) ==
  [u EXCEPT
     !.during = @ \cup {t.category},
     !.pair = IF t.category # u.category THEN @
              ELSE IF @ = "none" /\ t.pair = "none" /\ t.visible = u.visible
              THEN "overlapped" ELSE "spoiled"]

\* A click on a category button: toggleCategoryVisibility(category) up to
\* its first await.  The routes that do not reach hider.set run as in
\* ToggleCategoryVisibility.
ToggleBegins(category) ==
  LET result     == ClassifierFind(category, loadedModels)
      totalItems == TotalItems(result)
      categoryCurrentlyHidden == category \in hiddenCategories
      entry(route) ==
        ToggleLogged(category, route, 0, categoryCurrentlyHidden,
                     IF route = "noModels" THEN <<>>
                     ELSE FallbackQueries(category, loadedModels), {},
                     "none")
  IN  /\ Len(toggles) < MaxToggles
      /\ UNCHANGED <<loadedModels, hiddenCategories, cameraSettings, camera,
                     fitLog, propertiesContent, returned, ready, picks,
                     newestPick, status, loadedFiles, scene, loads>>
      /\ IF Len(loadedModels) = 0
         THEN /\ last' = entry("noModels")
              /\ prev' = Logged("none")
              /\ UNCHANGED <<hiddenItems, toggles>>
         ELSE IF PrimaryMatches(totalItems)
         THEN /\ toggles' = Append(toggles,
                                   SuspendedToggle(category, result, totalItems,
                                                   hiddenCategories))
              /\ UNCHANGED <<hiddenItems, last, prev>>
         ELSE /\ hiddenItems' =
                   ToggleCategoryVisibilityFallback(category, loadedModels,
                                                    hiddenItems)
              /\ last' = entry(IF FallbackModel(category, loadedModels) = 0
                               THEN "none" ELSE "fallback")
              /\ prev' = Logged("none")
              /\ UNCHANGED toggles

\* The engine applies the hider.set request of suspended toggle k.
HiderSettles(k) ==
  /\ k \in 1..Len(toggles)
  /\ toggles[k].stage = "hider"
  /\ hiddenItems' = HiderSet(toggles[k].visible, toggles[k].result, hiddenItems)
  /\ toggles' = [toggles EXCEPT ![k].stage = "settled"]
  /\ UNCHANGED <<loadedModels, hiddenCategories, cameraSettings, camera,
                 last, prev, fitLog, propertiesContent, returned, ready,
                 picks, newestPick, status, loadedFiles, scene, loads>>

\* Suspended toggle k resumes after its await: it parses the registry
\* again, deletes or sets the key of its category and stores the registry.
ToggleContinues(k) ==
  /\ k \in 1..Len(toggles)
  /\ toggles[k].stage = "settled"
  /\ LET t == toggles[k]
     IN  /\ hiddenCategories' =
              RegistryAfterToggle(StoredRegistry(hiddenCategories, t.registry),
                                  t.category, t.visible)
         /\ toggles' = [j \in 1..(Len(toggles) - 1) |->
                          Overlapped(Without(toggles, k)[j], t)]
         /\ last' = ToggleLogged(t.category, "primary", t.count, t.visible,
                                 <<>>, t.during, t.pair)
         /\ prev' = Logged("none")
  /\ UNCHANGED <<loadedModels, hiddenItems, cameraSettings, camera, fitLog,
                 propertiesContent, returned, ready, picks, newestPick,
                 status, loadedFiles, scene, loads>>

\* The bulk loops: only handles with getItemsByVisibility and setVisible.
BulkCapable(h) ==
  \E e \in Entries : /\ e.model = h
                     /\ Has(e, "getItemsByVisibility")
                     /\ Has(e, "setVisible")

AllItemsOf(h) ==
  IF h \in HandlesInUse
  THEN DOMAIN ItemsOf(CHOOSE e \in Entries : e.model = h)
  ELSE {}

\* Mutant: the bulk show also resets the registry.
ShowAllElementsResetsRegistry ==
  /\ hiddenItems' = [h \in Handles |-> IF BulkCapable(h) THEN {} ELSE hiddenItems[h]]
  /\ hiddenCategories' = {}
  /\ last' = Logged("showAll")
  /\ prev' = Logged("none")
  /\ UNCHANGED <<loadedModels, cameraSettings, camera, fitLog,
                 propertiesContent, returned, ready, picks, newestPick,
                 status, loadedFiles, scene,
                 toggles, loads>>

\* showAllElements
ShowAllElements ==
  /\ hiddenItems' = [h \in Handles |-> IF BulkCapable(h) THEN {} ELSE hiddenItems[h]]
  /\ last' = Logged("showAll")
  /\ prev' = Logged("none")
  /\ UNCHANGED <<loadedModels, hiddenCategories, cameraSettings, camera,
                 fitLog, propertiesContent, returned, ready, picks,
                 newestPick, status, loadedFiles, scene,
                 toggles, loads>>

\* hideAllElements
HideAllElements ==
  /\ hiddenItems' = [h \in Handles |->
                       IF BulkCapable(h) THEN AllItemsOf(h) ELSE hiddenItems[h]]
  /\ last' = Logged("hideAll")
  /\ prev' = Logged("none")
  /\ UNCHANGED <<loadedModels, hiddenCategories, cameraSettings, camera,
                 fitLog, propertiesContent, returned, ready, picks,
                 newestPick, status, loadedFiles, scene,
                 toggles, loads>>

\* loadFragmentFile(file).  parsed = FALSE: fragments.load yields no model,
\* the handler throws and only the status text changes.
LoadFragmentFile(fileName, parsed) ==
  /\ parsed => Len(loadedModels) < MaxModels
  /\ prev' = Logged("none")
  /\ UNCHANGED <<hiddenItems, hiddenCategories, cameraSettings,
                 propertiesContent, returned, ready, newestPick, toggles,
                 loads>>
  /\ IF parsed
     THEN LET pushed == [model |-> FreshHandle, fileName |-> fileName]
              models == Append(loadedModels, pushed)
              fit    == FitAllModelsToViewResult(cameraSettings, models, camera)
          IN  /\ loadedModels' = models
              /\ picks' = PushSeen(picks, pushed)
              /\ scene' = IF Has(pushed, "object") THEN scene \cup {FreshHandle}
                          ELSE scene
              /\ status' = Status("loaded", fileName, Len(models))
              /\ loadedFiles' = Append(loadedFiles, pushed)
              /\ camera' = fit.camera
              /\ fitLog' = fit.fit
              /\ last' = Logged("none")
     ELSE /\ last' = Logged("none")
          /\ status' = Status("failed", fileName, 0)
          /\ UNCHANGED <<loadedModels, camera, fitLog, picks, loadedFiles,
                         scene>>

\* --- loadFragmentFile, await by await -------------------------------------

\* loadFragmentFile(file) up to await waitForModelReady(model): the status
\* line, the engine's load (whose onItemSet adds the object to the scene)
\* and the push.  The suspended call keeps the file name and the handle.
LoadBegins(fileName) ==
  /\ Len(loadedModels) < MaxModels
  /\ Len(loads) < MaxLoads
  /\ LET pushed == [model |-> FreshHandle, fileName |-> fileName]
     IN  /\ loadedModels' = Append(loadedModels, pushed)
         /\ picks' = PushSeen(picks, pushed)
         /\ scene' = IF Has(pushed, "object") THEN scene \cup {FreshHandle}
                     ELSE scene
         /\ loads' = Append(loads, pushed)
  /\ status' = Status("loading", fileName, 0)
  /\ last' = Logged("none")
  /\ prev' = Logged("none")
  /\ UNCHANGED <<hiddenItems, hiddenCategories, cameraSettings, camera,
                 fitLog, propertiesContent, returned, ready, newestPick,
                 loadedFiles, toggles>>

\* Suspended load k resumes once its wait has resolved: fitAllModelsToView,
\* the 'Loaded' status with the length the collection has now, and the
\* list item whose button removes the handle the call holds.
LoadContinues(k) ==
  /\ k \in 1..Len(loads)
  /\ LET fit == FitAllModelsToViewResult(cameraSettings, loadedModels, camera)
     IN  /\ camera' = fit.camera
         /\ fitLog' = fit.fit
  /\ status' = Status("loaded", loads[k].fileName, Len(loadedModels))
  /\ loadedFiles' = Append(loadedFiles, loads[k])
  /\ loads' = Without(loads, k)
  /\ UNCHANGED <<loadedModels, hiddenItems, hiddenCategories, cameraSettings,
                 last, prev, propertiesContent, returned, ready, picks,
                 newestPick, scene, toggles>>

\* The handles of a sequence of entries renamed to the entries' places.
Renumbered(entries) ==
  [i \in 1..Len(entries) |-> [entries[i] EXCEPT !.model = i]]

\* The x button of a loaded-files item: fileItem.remove(), then
\* removeModel(model).
RemoveModel(h) ==
  /\ h \in HandlesInUse
  /\ \E i \in 1..Len(loadedFiles) : loadedFiles[i].model = h
  /\ LET kept   == SelectSeq(loadedModels, LAMBDA m : m.model # h)
         models == Renumbered(kept)
         fit    == FitAllModelsToViewResult(cameraSettings, models, camera)
     IN  /\ loadedModels' = models
         /\ hiddenItems' = [k \in Handles |->
                              IF k <= Len(kept) THEN hiddenItems[kept[k].model]
                              ELSE {}]
         /\ IF Len(models) > 0
            THEN camera' = fit.camera /\ fitLog' = fit.fit
            ELSE UNCHANGED <<camera, fitLog>>
  /\ picks' = ArrayReplaced(picks, {h})
  /\ toggles' = TogglesRekeyed(toggles, {h})
  /\ loads' = Rehandle(loads, {h})
  /\ status' = Status("removed", "", Len(loadedModels) - 1)
  /\ loadedFiles' = Rehandle(SelectSeq(loadedFiles, LAMBDA m : m.model # h), {h})
  /\ scene' = {k \in 1..(Len(loadedModels) - 1) :
                 (IF k < h THEN k ELSE k + 1) \in scene}
  /\ last' = Logged("none")
  /\ prev' = Logged("none")
  /\ UNCHANGED <<hiddenCategories, cameraSettings, propertiesContent,
                 returned, ready, newestPick>>

\* clearAllFragments
ClearAllFragments ==
  /\ loadedModels' = <<>>
  /\ hiddenItems' = [h \in Handles |-> {}]
  /\ camera' = [camera EXCEPT !.position = At(10 * 800, 10 * 800, 10 * 800),
                              !.target = <<0, 0, 0>>]
  /\ fitLog' = Skipped("clear")
  /\ picks' = ArrayReplaced(picks, Handles)
  /\ toggles' = TogglesRekeyed(toggles, Handles)
  /\ loads' = Rehandle(loads, Handles)
  /\ status' = Status("cleared", "", 0)
  /\ loadedFiles' = <<>>
  /\ scene' = {}
  /\ last' = Logged("none")
  /\ prev' = Logged("none")
  /\ UNCHANGED <<hiddenCategories, cameraSettings, propertiesContent,
                 returned, ready, newestPick>>

\* Mutant: the update re-fits with the far settings.
UpdateCameraSettingsFarFit(newSettings) ==
  LET settings == ObjectAssign(cameraSettings, newSettings)
      applied  == [camera EXCEPT !.near = settings.nearPlane,
                                 !.far = settings.farPlane * 1000]
      fit      == FitCameraToModelsResult(TRUE, settings, loadedModels, applied)
  IN  /\ cameraSettings' = settings
      /\ camera' = fit.camera
      /\ fitLog' = fit.fit
      /\ UNCHANGED <<loadedModels, hiddenItems, hiddenCategories, last, prev,
                     propertiesContent, returned, ready, picks, newestPick,
                     status, loadedFiles, scene,
                     toggles, loads>>

\* updateCameraSettings(newSettings)
UpdateCameraSettings(newSettings) ==
  LET settings == ObjectAssign(cameraSettings, newSettings)
      applied  == [camera EXCEPT !.near = settings.nearPlane,
                                 !.far = settings.farPlane * 1000]
      fit      == FitCameraToModelsResult(FALSE, settings, loadedModels, applied)
  IN  /\ cameraSettings' = settings
      /\ camera' = fit.camera
      /\ fitLog' = fit.fit
      /\ UNCHANGED <<loadedModels, hiddenItems, hiddenCategories, last, prev,
                     propertiesContent, returned, ready, picks, newestPick,
                     status, loadedFiles, scene,
                     toggles, loads>>

\* getCameraSettings: a copy of the record, the record itself untouched.
GetCameraSettings ==
  /\ returned' = [called |-> TRUE,
                  settings |-> [k \in DOMAIN cameraSettings |-> cameraSettings[k]]]
  /\ UNCHANGED <<loadedModels, hiddenItems, hiddenCategories, cameraSettings,
                 camera, last, prev, fitLog, propertiesContent, ready, picks,
                 newestPick, status, loadedFiles, scene,
                 toggles, loads>>

\* waitForModelReady(model, maxWaitTime): records the start time and runs
\* checkReady once, synchronously.
WaitForModelReady(behaviour, maxWaitTime) ==
  /\ ready.phase = "idle"
  /\ ready' = CheckReady([IdleReady EXCEPT
                            !.phase = "polling",
                            !.behaviour = behaviour,
                            !.maxWaitTime = maxWaitTime,
                            !.geometry = (behaviour.children = "present"),
                            !.presentAtFirstPoll =
                               /\ behaviour.check = "ok"
                               /\ \/ behaviour.children = "present"
                                  \/ behaviour.merged = "valid"])
  /\ UNCHANGED <<loadedModels, hiddenItems, hiddenCategories, cameraSettings,
                 camera, last, prev, fitLog, propertiesContent, returned,
                 picks, newestPick, status, loadedFiles, scene,
                 toggles, loads>>

\* Time passes while a poll timer is pending; a timer fires at most one
\* interval late.
TimePasses ==
  /\ ready.phase = "polling"
  /\ ready.elapsed < ready.due + CheckInterval
  /\ ready' = [ready EXCEPT !.elapsed = @ + CheckInterval]
  /\ UNCHANGED <<loadedModels, hiddenItems, hiddenCategories, cameraSettings,
                 camera, last, prev, fitLog, propertiesContent, returned,
                 picks, newestPick, status, loadedFiles, scene,
                 toggles, loads>>

\* The timer set by setTimeout(checkReady, checkInterval) fires.
PollTimerFires ==
  /\ ready.phase = "polling"
  /\ ready.elapsed >= ready.due
  /\ ready' = CheckReady(ready)
  /\ UNCHANGED <<loadedModels, hiddenItems, hiddenCategories, cameraSettings,
                 camera, last, prev, fitLog, propertiesContent, returned,
                 picks, newestPick, status, loadedFiles, scene,
                 toggles, loads>>

\* The engine attaches the first mesh with geometry to model.object.
GeometryArrives ==
  /\ ready.phase = "polling"
  /\ ready.behaviour.children = "late"
  /\ ~ready.geometry
  /\ ready' = [ready EXCEPT !.geometry = TRUE]
  /\ UNCHANGED <<loadedModels, hiddenItems, hiddenCategories, cameraSettings,
                 camera, last, prev, fitLog, propertiesContent, returned,
                 picks, newestPick, status, loadedFiles, scene,
                 toggles, loads>>

\* The getMergedBox promises of the earlier polls settle: the then callback
\* resolves for a non-empty box and does not stop the poll loop; an empty
\* box and a rejection change nothing.
MergedBoxSettles ==
  /\ ready.inFlight
  /\ ready' = [ready EXCEPT
                 !.inFlight = FALSE,
                 !.resolved = @ \/ (ready.behaviour.merged = "valid"),
                 !.resolvedBy = IF ~ready.resolved /\ ready.behaviour.merged = "valid"
                                THEN "merged" ELSE @]
  /\ UNCHANGED <<loadedModels, hiddenItems, hiddenCategories, cameraSettings,
                 camera, last, prev, fitLog, propertiesContent, returned,
                 picks, newestPick, status, loadedFiles, scene,
                 toggles, loads>>

\* The caller awaiting the promise continues once the promise is resolved
\* and the poll loop and its queries have ended.
WaitReturns ==
  /\ ready.phase = "stopped"
  /\ ~ready.inFlight
  /\ ready' = IdleReady
  /\ UNCHANGED <<loadedModels, hiddenItems, hiddenCategories, cameraSettings,
                 camera, last, prev, fitLog, propertiesContent, returned,
                 picks, newestPick, status, loadedFiles, scene,
                 toggles, loads>>

\* fitCameraToModels(wide) called on its own (the fit-tight and fit-wide
\* buttons).
FitCameraToModels(wide) ==
  LET fit == FitCameraToModelsResult(wide, cameraSettings, loadedModels, camera)
  IN  /\ camera' = fit.camera
      /\ fitLog' = fit.fit
      /\ UNCHANGED <<loadedModels, hiddenItems, hiddenCategories,
                     cameraSettings, last, prev, propertiesContent, returned,
                     ready, picks, newestPick, status, loadedFiles, scene,
                     toggles, loads>>

\* fitAllModelsToView from the fit-view and reset-view buttons.
FitAllModelsToView ==
  LET fit == FitAllModelsToViewResult(cameraSettings, loadedModels, camera)
  IN  /\ camera' = fit.camera
      /\ fitLog' = fit.fit
      /\ UNCHANGED <<loadedModels, hiddenItems, hiddenCategories,
                     cameraSettings, last, prev, propertiesContent, returned,
                     ready, picks, newestPick, status, loadedFiles, scene,
                     toggles, loads>>

\* setCameraPreset(view)
SetCameraPreset(view) ==
  LET fit == SetCameraPresetResult(view, loadedModels, camera)
  IN  /\ camera' = fit.camera
      /\ fitLog' = fit.fit
      /\ UNCHANGED <<loadedModels, hiddenItems, hiddenCategories,
                     cameraSettings, last, prev, propertiesContent, returned,
                     ready, picks, newestPick, status, loadedFiles, scene,
                     toggles, loads>>

\* The click handler of setupPicking with displayComponentProperties.
\* ray: what each handle's raycast does for this click.
Pick(ray) ==
  /\ Len(loadedModels) > 0
  /\ LET i == FirstHit(loadedModels, ray)
     IN  propertiesContent' =
           IF i = 0 THEN Panel("nothing", "", 0)
           ELSE Panel("component", loadedModels[i].fileName, HitItem(loadedModels[i]))
  /\ UNCHANGED <<loadedModels, hiddenItems, hiddenCategories, cameraSettings,
                 camera, last, prev, fitLog, returned, ready, picks,
                 newestPick, status, loadedFiles, scene,
                 toggles, loads>>

\* A click handler ends: what it leaves in the panel, and the bookkeeping.
\* k = 0 for a handler that ends without having been suspended.
PickCompletes(k, panel, outcome) ==
  /\ propertiesContent' = panel
  /\ picks' = IF k = 0 THEN picks ELSE AfterCompletion(picks, k)
  /\ newestPick' = IF k # 0 /\ picks[k].overtaken THEN newestPick ELSE outcome

\* A click: the handler runs up to its first await, the raycast of the
\* first handle that has one; with no such handle it ends at once with the
\* placeholder.
PickBegins(ray) ==
  /\ Len(loadedModels) > 0
  /\ Len(picks) < MaxPicks
  /\ LET i == NextRaycast(loadedModels, 1)
     IN  IF i > Len(loadedModels)
         THEN PickCompletes(0, Panel("nothing", "", 0), "miss")
         ELSE /\ picks' = Append(picks, Suspended(ray, loadedModels, i, <<i>>))
              /\ UNCHANGED <<propertiesContent, newestPick, status,
                             loadedFiles, scene,
                             toggles, loads>>
  /\ UNCHANGED <<loadedModels, hiddenItems, hiddenCategories, cameraSettings,
                 camera, last, prev, fitLog, returned, ready,
                 status, loadedFiles, scene,
                 toggles, loads>>

\* The raycast awaited by handler k settles.  A hit goes on to
\* displayComponentProperties, which suspends in getItemsData when the
\* handle has it and writes the panel at once when not; a miss or a caught
\* exception goes on to the next handle with raycast, or to the placeholder.
RaycastSettles(k) ==
  /\ k \in 1..Len(picks)
  /\ picks[k].stage = "raycast"
  /\ LET p == picks[k]
         e == p.models[p.at]
         j == IF p.ray[p.at] = "throws" THEN OnRaycastError(p.models, p.at)
              ELSE NextRaycast(p.models, p.at + 1)
     IN  IF p.ray[p.at] = "hit"
         THEN IF Has(e, "getItemsData")
              THEN /\ picks' = [picks EXCEPT ![k].stage = "fetch"]
                   /\ UNCHANGED <<propertiesContent, newestPick, status,
                                  loadedFiles, scene,
                                  toggles, loads>>
              ELSE PickCompletes(k, Panel("component", e.fileName, HitItem(e)), "hit")
         ELSE IF j > Len(p.models)
         THEN PickCompletes(k, Panel("nothing", "", 0), "miss")
         ELSE /\ picks' = [picks EXCEPT ![k].at = j, ![k].queried = Append(@, j)]
              /\ UNCHANGED <<propertiesContent, newestPick, status,
                             loadedFiles, scene,
                             toggles, loads>>
  /\ UNCHANGED <<loadedModels, hiddenItems, hiddenCategories, cameraSettings,
                 camera, last, prev, fitLog, returned, ready,
                 status, loadedFiles, scene,
                 toggles, loads>>

\* The property query awaited by handler k settles and the panel is written.
PropertiesSettle(k) ==
  /\ k \in 1..Len(picks)
  /\ picks[k].stage = "fetch"
  /\ LET e == picks[k].models[picks[k].at]
     IN  PickCompletes(k, Panel("component", e.fileName, HitItem(e)), "hit")
  /\ UNCHANGED <<loadedModels, hiddenItems, hiddenCategories, cameraSettings,
                 camera, last, prev, fitLog, returned, ready,
                 status, loadedFiles, scene,
                 toggles, loads>>

\* Every handler of the session, each over a few of its inputs.
Next ==
  \/ \E t \in BOOLEAN : ToggleCategoryVisibility(IFCWALL, t)
  \/ ShowAllElements
  \/ HideAllElements
  \/ \E f \in {"cube", "annex"} : LoadFragmentFile(f, TRUE)
  \/ LoadFragmentFile("cube", FALSE)
  \/ \E h \in Handles : RemoveModel(h)
  \/ ClearAllFragments
  \/ UpdateCameraSettings([farPlane |-> 1000])
  \/ FitCameraToModels(TRUE)
  \/ FitAllModelsToView
  \/ SetCameraPreset("side")
  \/ \E o \in RayOutcomes : Pick([h \in Handles |-> o])

Spec == Init /\ [][Next]_vars

\* The visibility side: every file with elements of the button categories
\* or their variations and every category button, without the bulk
\* handlers; the camera is moved only by the fits that loads and removals
\* perform.
NextVisibility ==
  \/ \E c \in ButtonCategories, t \in BOOLEAN : ToggleCategoryVisibility(c, t)
  \/ \E f \in FileNames \ {"point"} : LoadFragmentFile(f, TRUE)
  \/ \E h \in Handles : RemoveModel(h)
  \/ ClearAllFragments

SpecVisibility == Init /\ [][NextVisibility]_vars

\* The camera side: every file, settings update and fit, an axis preset and
\* the diagonal one, the elements' visibility left alone.
NextCamera ==
  \/ \E f \in FileNames : LoadFragmentFile(f, TRUE)
  \/ \E h \in Handles : RemoveModel(h)
  \/ ClearAllFragments
  \/ \E p \in SettingsUpdates : UpdateCameraSettings(p)
  \/ \E w \in BOOLEAN : FitCameraToModels(w)
  \/ FitAllModelsToView
  \/ \E v \in {"top", "isometric"} : SetCameraPreset(v)

SpecCamera == Init /\ [][NextCamera]_vars

\* The settings side: every settings update and the settings getter among
\* the other handlers, over copies of one file.
NextSettings ==
  \/ \E p \in SettingsUpdates : UpdateCameraSettings(p)
  \/ GetCameraSettings
  \/ LoadFragmentFile("cube", TRUE)
  \/ \E h \in Handles : RemoveModel(h)
  \/ ClearAllFragments
  \/ \E w \in BOOLEAN : FitCameraToModels(w)
  \/ FitAllModelsToView
  \/ SetCameraPreset("front")
  \/ ToggleCategoryVisibility(IFCWALL, FALSE)
  \/ \E o \in {"miss", "hit"} : Pick([h \in Handles |-> o])

SpecSettings == Init /\ [][NextSettings]_vars

\* The loading side: every file, parsed or not, removals and clears, and a
\* category toggle so that there is visibility to preserve.
NextLoading ==
  \/ \E f \in FileNames, ok \in BOOLEAN : LoadFragmentFile(f, ok)
  \/ \E h \in Handles : RemoveModel(h)
  \/ ClearAllFragments
  \/ ToggleCategoryVisibility(IFCWALL, FALSE)

SpecLoading == Init /\ [][NextLoading]_vars

\* The readiness monitor on its own, for every behaviour of the handle.
NextReady ==
  \/ \E b \in Behaviours, t \in WaitTimes : WaitForModelReady(b, t)
  \/ TimePasses
  \/ PollTimerFires
  \/ GeometryArrives
  \/ MergedBoxSettles
  \/ WaitReturns

SpecReady == Init /\ [][NextReady]_vars

\* Picking await by await: clicks may start while earlier clicks are
\* suspended, and models are loaded in between.
NextPicking ==
  \/ \E r \in PickRays : PickBegins(r)
  \/ \E k \in 1..MaxPicks : RaycastSettles(k)
  \/ \E k \in 1..MaxPicks : PropertiesSettle(k)
  \/ \E f \in {"cube", "annex", "shell"} : LoadFragmentFile(f, TRUE)

SpecPicking == Init /\ [][NextPicking]_vars

\* The size thresholds: settings updates that move them, and the close and
\* far fit of small, wide and tall models.
NextThresholds ==
  \/ \E p \in ThresholdUpdates : UpdateCameraSettings(p)
  \/ \E w \in BOOLEAN : FitCameraToModels(w)
  \/ \E f \in {"cube", "annex", "tower"} : LoadFragmentFile(f, TRUE)
  \/ \E h \in Handles : RemoveModel(h)
  \/ ClearAllFragments

SpecThresholds == Init /\ [][NextThresholds]_vars

\* Loading await by await: removals and clears, and further loads, may come
\* while a load waits for its model to be ready.
NextLoadRace ==
  \/ \E f \in {"cube", "annex"} : LoadBegins(f)
  \/ \E k \in 1..MaxLoads : LoadContinues(k)
  \/ \E h \in Handles : RemoveModel(h)
  \/ ClearAllFragments

SpecLoadRace == Init /\ [][NextLoadRace]_vars

\* Category toggles await by await: a click on a button may come while
\* earlier toggles are suspended in hider.set; copies of a model the
\* classifier knows are loaded while no toggle is suspended.
NextToggling ==
  \/ \E c \in ButtonCategories : ToggleBegins(c)
  \/ \E k \in 1..MaxToggles : HiderSettles(k)
  \/ \E k \in 1..MaxToggles : ToggleContinues(k)
  \/ toggles = <<>> /\ LoadFragmentFile("cube", TRUE)

SpecToggling == Init /\ [][NextToggling]_vars

\* Picking with raycasts that throw.
NextPickErrors ==
  \/ \E r \in PickErrorRays : PickBegins(r)
  \/ \E k \in 1..MaxPicks : RaycastSettles(k)
  \/ \E k \in 1..MaxPicks : PropertiesSettle(k)
  \/ \E f \in {"cube", "annex", "shell"} : LoadFragmentFile(f, TRUE)

SpecPickErrors == Init /\ [][NextPickErrors]_vars

\* Picking while models are removed: clicks that hit every model, with
\* removals and clears while they are suspended.
NextPickRemoval ==
  \/ PickBegins([h \in Handles |-> "hit"])
  \/ \E k \in 1..MaxPicks : RaycastSettles(k)
  \/ \E k \in 1..MaxPicks : PropertiesSettle(k)
  \/ \E f \in {"cube", "annex"} : LoadFragmentFile(f, TRUE)
  \/ \E h \in Handles : RemoveModel(h)
  \/ ClearAllFragments

SpecPickRemoval == Init /\ [][NextPickRemoval]_vars

\* The same with the assumption that time passes and due timers fire.
SpecReadyFair ==
  SpecReady /\ WF_vars(TimePasses) /\ WF_vars(PollTimerFires)

\* ------------------------------------------------------------------------
\* Properties
\* ------------------------------------------------------------------------
IsHidden(category, registry) == category \in registry

PrimaryToggle(l) == l.op = "toggle" /\ l.route = "primary"

\* C1: two toggles of the same category in direct succession, both resolved
\* by the classifier, leave the registry flag of the category as it was
\* before the first and report the same number of items.
C1_DoubleToggleRestores ==
  (PrimaryToggle(last) /\ PrimaryToggle(prev) /\ prev.cat = last.cat)
    => /\ IsHidden(last.cat, hiddenCategories) = prev.hiddenBefore
       /\ last.count = prev.count

C1_Witness ==
  /\ PrimaryToggle(last) /\ PrimaryToggle(prev) /\ prev.cat = last.cat
  /\ last.count > 0
  /\ last.hiddenBefore

\* The items of a loaded model that the resolution of a toggle matched:
\* the classifier's items on the primary route, the items of the model's
\* winning variation on the fallback route.
MatchedItems(e, category, route) ==
  IF route = "primary"
  THEN IF Catalogue[e.fileName].indexed
       THEN GetItemsOfCategories(e, category) ELSE {}
  ELSE IF WinningVariation(e, category) = 0 THEN {}
       ELSE GetItemsOfCategories(e, Variations(category)[WinningVariation(e, category)])

\* C2: a toggle that changes the visibility of elements also inverts the
\* registry flag of its category, on the primary and on the fallback route
\* (stated for the calls whose classifier query returns normally).
C2_VisibilityChangeInvertsRegistry ==
  [][\A c \in ButtonCategories :
       (ToggleCategoryVisibility(c, FALSE) /\ hiddenItems' # hiddenItems)
         => IsHidden(c, hiddenCategories') # IsHidden(c, hiddenCategories)]_vars

\* C3: a toggle that found elements inverts the visibility of every matched
\* element of every loaded model, not only of the first model with a match
\* (stated for the fallback chain entered after an empty classifier result).
C3_InvertsInEveryModel ==
  [][\A c \in ButtonCategories :
       (ToggleCategoryVisibility(c, FALSE) /\ last'.route = "fallback")
         => \A e \in Entries : \A id \in MatchedItems(e, c, "fallback") :
              (id \in hiddenItems'[e.model]) # (id \in hiddenItems[e.model])]_vars

\* Number of items named category over the loaded models the classifier knows.
ClassifiedCount(category) ==
  Cardinality({p \in Entries \X (1..3) :
                 /\ Catalogue[p[1].fileName].indexed
                 /\ p[2] \in GetItemsOfCategories(p[1], category)})

NothingMatches(category) ==
  \A e \in Entries :
    /\ MatchedItems(e, category, "primary") = {}
    /\ Has(e, "getItemsOfCategories")
         => \A k \in 1..4 : GetItemsOfCategories(e, Variations(category)[k]) = {}

\* C5: a toggle for which nothing matches changes neither the registry nor
\* any element's visibility.
C5_NoMatchNoChange ==
  [][\A c \in ButtonCategories, t \in BOOLEAN :
       (ToggleCategoryVisibility(c, t) /\ NothingMatches(c))
         => /\ hiddenCategories' = hiddenCategories
            /\ hiddenItems' = hiddenItems]_vars

C5_Witness ==
  /\ last.op = "toggle" /\ last.route = "none"
  /\ Len(loadedModels) > 0
  /\ NothingMatches(last.cat)
  /\ \E e \in Entries : Catalogue[e.fileName].indexed

\* C6: only the category toggle writes the registry.
C6_OnlyToggleWritesRegistry ==
  [][hiddenCategories' # hiddenCategories
       => \E c \in ButtonCategories, t \in BOOLEAN : ToggleCategoryVisibility(c, t)]_vars

C6_Witness ==
  /\ last.op = "showAll"
  /\ IFCWALL \in hiddenCategories
  /\ Len(loadedModels) > 0
  /\ \A h \in HandlesInUse : hiddenItems[h] = {}

CloseOrFarFit == fitLog.positioned /\ fitLog.op \in {"close", "far"}

\* C7: after a fit the far plane is at least the fit's camera distance plus
\* the largest model dimension.
C7_FarPlaneCoversFit ==
  (fitLog.positioned /\ fitLog.op \in {"close", "far", "fitAll"})
    => camera.far >= fitLog.distance + fitLog.maxDim * 1000

\* C8: close and far fit keep the camera at least minimumDistance away:
\* baseDistance is the larger of maxDim * multiplier and minimumDistance, the
\* scale is at least 1, and the camera sits at the final distance times
\* (0.9, heightOffset, 0.8) from the centre it looks at.
C8_FitDistanceFloor ==
  CloseOrFarFit
    => LET m == IF fitLog.op = "far" THEN cameraSettings.farFitMultiplier
                ELSE cameraSettings.closeFitMultiplier
       IN  /\ fitLog.distance >= cameraSettings.minimumDistance * 1000
           /\ fitLog.base = Max2(fitLog.maxDim * m * 100,
                                 cameraSettings.minimumDistance * 1000)
           /\ fitLog.scale >= 1
           /\ fitLog.distance = fitLog.base * fitLog.scale
           /\ ~camera.position.nan
           /\ camera.position.at[1] - camera.target[1] = (fitLog.distance \div 100) * 72
           /\ camera.position.at[3] - camera.target[3] = (fitLog.distance \div 100) * 64

C8_Witness ==
  /\ CloseOrFarFit
  /\ fitLog.op = "far"
  /\ fitLog.base = cameraSettings.minimumDistance * 1000
  /\ fitLog.maxDim * cameraSettings.farFitMultiplier * 100 < fitLog.base

\* C9: for single-point bounds every framing operation puts the camera at a
\* defined position, away from the centre by at least minimumDistance.
C9_PointBoundsKeepDistance ==
  (fitLog.positioned /\ fitLog.maxDim = 0)
    => /\ ~camera.position.nan
       /\ camera.position.at # fitLog.center
       /\ fitLog.distance >= cameraSettings.minimumDistance * 1000

OneCubeDefaultCloseFit ==
  /\ fitLog.op = "close" /\ fitLog.positioned
  /\ cameraSettings = DefaultSettings
  /\ Len(loadedModels) = 1
  /\ loadedModels[1].fileName = "cube"

\* C10: the close fit of the 100-unit cube at the origin under the default
\* settings: maxDim 100, scale 1, baseDistance 500, camera at the centre
\* (50,50,50) plus (450,1000,400), looking at (50,50,50).
C10_CubeCloseFit ==
  OneCubeDefaultCloseFit
    => /\ fitLog.maxDim = 100
       /\ fitLog.scale = 1
       /\ fitLog.base = 500 * 1000
       /\ camera.position = At((50 + 450) * 800, (50 + 1000) * 800, (50 + 400) * 800)
       /\ camera.target = <<50 * 800, 50 * 800, 50 * 800>>

C10_Witness == OneCubeDefaultCloseFit /\ fitLog.distance = 500 * 1000

\* The geometric extent of a loaded model is a valid (non-empty) box that
\* the handle gives access to.
YieldsBox(e) ==
  /\ ~Catalogue[e.fileName].box.empty
  /\ (Has(e, "object") \/ Has(e, "boundingBoxes"))

NoValidBox == \A e \in Entries : ~YieldsBox(e)

\* A step of one of the framing operations called on its own.
FramingStep ==
  \/ \E w \in BOOLEAN : FitCameraToModels(w)
  \/ FitAllModelsToView
  \/ \E v \in Views : SetCameraPreset(v)

FramingOps == {"close", "far", "fitAll"} \cup Views

\* C11: with no model loaded, or no loaded model yielding a valid box, a
\* framing operation (close fit, far fit, fitAllModelsToView, preset) leaves
\* the camera's position, target and far plane as they were.
C11_NoBoxNoFraming ==
  [][(FramingStep /\ NoValidBox)
       => /\ camera'.position = camera.position
          /\ camera'.target = camera.target
          /\ camera'.far = camera.far
          /\ ~fitLog'.positioned]_vars

C11_Witness ==
  /\ Len(loadedModels) > 0
  /\ NoValidBox
  /\ fitLog.op \in Views
  /\ ~fitLog.positioned

\* C12: a framing operation skips the models without computable geometry:
\* when at least one loaded model has a valid box, the last framing
\* operation has positioned the camera.
C12_SkipsModelsWithoutGeometry ==
  (fitLog.op \in FramingOps /\ Len(loadedModels) > 0 /\ ~NoValidBox)
    => fitLog.positioned

\* The boxes of the loaded models that yield one.
ValidBoxes == {Catalogue[e.fileName].box : e \in {x \in Entries : YieldsBox(x)}}

\* b lies inside c.
Contains(c, b) ==
  \A i \in 1..3 : c.min[i] <= b.min[i] /\ b.max[i] <= c.max[i]

Disjoint(a, b) ==
  \E i \in 1..3 : a.max[i] < b.min[i] \/ b.max[i] < a.min[i]

\* C13: the combined bounds a framing operation computed are the
\* component-wise min/max of the valid models' boxes: every face of the
\* combined box is a face of some model's box and no model's box reaches
\* beyond it; for one model it is that model's box, for two disjoint models
\* it contains both and differs from each.
C13_CombinedBoundsAreUnion ==
  (fitLog.positioned /\ Len(loadedModels) > 0)
    => /\ ~fitLog.box.empty
       /\ \A b \in ValidBoxes : Contains(fitLog.box, b)
       /\ \A i \in 1..3 :
            /\ fitLog.box.min[i] \in {b.min[i] : b \in ValidBoxes}
            /\ fitLog.box.max[i] \in {b.max[i] : b \in ValidBoxes}
       /\ ValidBoxes = {Catalogue[loadedModels[1].fileName].box}
            => fitLog.box = Catalogue[loadedModels[1].fileName].box
       /\ \A a, b \in ValidBoxes :
            Disjoint(a, b) => fitLog.box # a /\ fitLog.box # b

C13_Witness ==
  /\ fitLog.positioned /\ fitLog.op = "close"
  /\ Len(loadedModels) = 2
  /\ \E a, b \in ValidBoxes : Disjoint(a, b)
  /\ fitLog.box = Box(<<0, 0, 0>>, <<300, 100, 100>>)

\* A step of updateCameraSettings.
SettingsStep == \E p \in SettingsUpdates : UpdateCameraSettings(p)

\* C14: updateCameraSettings sets exactly the fields its argument names, to
\* the values given, and leaves the others; no other operation changes
\* cameraSettings, and the object getCameraSettings returned is the record
\* as it was at the call.
C14_OnlyUpdateWritesSettings ==
  [][/\ \A p \in SettingsUpdates :
          UpdateCameraSettings(p)
            => /\ DOMAIN cameraSettings' = DOMAIN cameraSettings
               /\ \A k \in DOMAIN p : cameraSettings'[k] = p[k]
               /\ \A k \in DOMAIN cameraSettings \ DOMAIN p :
                    cameraSettings'[k] = cameraSettings[k]
     /\ (cameraSettings' # cameraSettings) => SettingsStep
     /\ GetCameraSettings
          => cameraSettings' = cameraSettings /\ returned'.settings = cameraSettings
    ]_vars

C14_Witness ==
  /\ cameraSettings.farPlane = 1000
  /\ cameraSettings.minimumDistance = 50
  /\ cameraSettings.closeFitMultiplier = 10
  /\ cameraSettings.farFitMultiplier = DefaultSettings.farFitMultiplier
  /\ returned.called /\ returned.settings.farPlane = DefaultSettings.farPlane
  /\ fitLog.op \in Views
  /\ last.op = "toggle"
  /\ propertiesContent.kind = "component"

\* C15: an updateCameraSettings call leaves the camera's near and far planes
\* at the nearPlane and farPlane of the updated settings and the camera
\* where one close fit under the updated settings puts it; it performs no
\* far fit.
C15_UpdateAppliesPlanesThenCloseFit ==
  [][SettingsStep
       => LET fit == FitCameraToModelsResult(FALSE, cameraSettings', loadedModels,
                                             camera)
          IN  /\ camera'.near = cameraSettings'.nearPlane
              /\ camera'.far = cameraSettings'.farPlane * 1000
              /\ camera'.position = fit.camera.position
              /\ camera'.target = fit.camera.target
              /\ fitLog'.op = "close"
              /\ fitLog' = fit.fit]_vars

C15_Witness ==
  /\ fitLog.op = "close" /\ fitLog.positioned
  /\ cameraSettings.farPlane = 1000
  /\ camera.far = 1000 * 1000
  /\ camera.position.at[2] - camera.target[2]
       # (fitLog.distance \div 100) * 8 * cameraSettings.farHeightOffset

\* C16: a wait always resolves and never fails: whatever the handle does,
\* a poll that finds the elapsed time above maxWaitTime resolves the wait and
\* ends the poll loop, and, timers firing, every wait is resolved in the end.
C16_WaitAlwaysResolves ==
  /\ [](ready.phase = "polling" => <>(ready.resolved /\ ready.phase = "stopped"))
  /\ [][(PollTimerFires /\ ready.elapsed > ready.maxWaitTime)
          => (ready'.resolved /\ ready'.phase = "stopped")]_vars
  /\ [](ready.phase = "stopped" => ready.resolved)

C16_Witness ==
  /\ ready.phase = "stopped" /\ ready.resolved /\ ready.timeoutWarned
  /\ ready.behaviour.merged = "rejects"
  /\ ready.maxWaitTime = DefaultMaxWaitTime
  /\ ready.elapsed > DefaultMaxWaitTime

\* C17: a wait whose model has geometry at the first poll, and which that
\* geometry resolved, emits no timeout warning; a wait whose model never has
\* geometry ends through the timeout path, resolved and with the warning.
C17_FirstPollReadyNoWarning ==
  /\ (ready.presentAtFirstPoll /\ ready.resolvedBy \in {"poll", "merged"})
       => ~ready.timeoutWarned
  /\ (ready.phase = "stopped" /\ ~ready.geometry
        /\ ready.behaviour.merged # "valid")
       => (ready.resolved /\ ready.timeoutWarned)

\* C18: once a click that hit nothing has completed, and no click started
\* after it has completed, the panel shows the placeholder, whatever clicks
\* were in flight.
C18_MissShowsPlaceholder ==
  newestPick = "miss" => propertiesContent.kind = "nothing"

\* Handler k ends in this step.
PickEnds(k) ==
  /\ k \in 1..Len(picks)
  /\ RaycastSettles(k) \/ PropertiesSettle(k)
  /\ Len(picks') < Len(picks)

\* C19: a click calls the raycasts one handle at a time in the order of the
\* array, skipping the handles without raycast; it shows the element of the
\* first handle that reports a hit and has called no raycast beyond it; with
\* no hit it has called the raycast of every handle that has one.
C19_FirstHitInLoadOrder ==
  [][\A k \in 1..MaxPicks :
       PickEnds(k)
         => LET p    == picks[k]
                able == {j \in 1..Len(p.models) : Has(p.models[j], "raycast")}
                hits == {j \in able : p.ray[j] = "hit"}
            IN  /\ \A a, b \in 1..Len(p.queried) : a < b => p.queried[a] < p.queried[b]
                /\ IF hits = {}
                   THEN /\ propertiesContent'.kind = "nothing"
                        /\ {p.queried[a] : a \in 1..Len(p.queried)} = able
                   ELSE /\ propertiesContent' =
                             Panel("component", p.models[SetMin(hits)].fileName,
                                   HitItem(p.models[SetMin(hits)]))
                        /\ {p.queried[a] : a \in 1..Len(p.queried)} =
                             {j \in able : j <= SetMin(hits)}]_vars

C19_Witness ==
  /\ propertiesContent = Panel("component", "annex", 1)
  /\ Len(loadedModels) = 2
  /\ loadedModels[1].fileName = "shell"
  /\ newestPick = "hit"

\* C20: a load whose file yields no model handle reports the failure in the
\* status line and leaves the loaded models, the scene objects and the
\* loaded-files list as they were.
C20_FailedLoadLeavesModels ==
  [][\A f \in FileNames :
       LoadFragmentFile(f, FALSE)
         => /\ status'.kind = "failed" /\ status'.fileName = f
            /\ loadedModels' = loadedModels
            /\ scene' = scene
            /\ loadedFiles' = loadedFiles
            /\ hiddenItems' = hiddenItems]_vars

C20_Witness ==
  /\ status.kind = "failed" /\ status.fileName = "annex"
  /\ Len(loadedModels) = 2
  /\ loadedFiles = loadedModels
  /\ scene = {2}
  /\ hiddenItems[2] # {}

\* C21: the file names of the entries of the loaded-model collection are
\* pairwise distinct, whatever is loaded, removed and cleared.
C21_FileNamesDistinct ==
  \A i, j \in 1..Len(loadedModels) :
    i # j => loadedModels[i].fileName # loadedModels[j].fileName

\* The registry flag of the category agrees with what is displayed: the
\* elements the classifier finds for it are hidden exactly when it is set.
FlagAgrees(category) ==
  \A h \in DOMAIN ClassifierFind(category, loadedModels) :
    \A id \in ClassifierFind(category, loadedModels)[h] :
      (id \in hiddenItems[h]) = IsHidden(category, hiddenCategories)

\* C22: two toggles of one category, one started while the other was
\* suspended in hider.set after reading the registry, together invert the
\* flag twice: when the later of them has completed the flag is what it was
\* before them and agrees with the elements' visibility.
C22_OverlappingTogglesInvertTwice ==
  (PrimaryToggle(last) /\ last.pair = "overlapped")
    => /\ IsHidden(last.cat, hiddenCategories) = last.hiddenBefore
       /\ (\A k \in 1..Len(toggles) : toggles[k].category # last.cat)
            => FlagAgrees(last.cat)

\* C30: a toggle resuming after hider.set writes the flag of its own
\* category only, into the registry as stored at that moment: the flags that
\* toggles of other categories wrote while it was suspended stay, and its
\* own flag becomes the inverse of the one it read.
C30_OtherCategoriesKeepTheirFlag ==
  [][\A k \in 1..MaxToggles :
       ToggleContinues(k)
         => /\ \A c \in ButtonCategories \ {toggles[k].category} :
                 IsHidden(c, hiddenCategories') = IsHidden(c, hiddenCategories)
            /\ IsHidden(toggles[k].category, hiddenCategories')
                 = ~toggles[k].visible]_vars

C30_Witness ==
  /\ PrimaryToggle(last) /\ last.cat = IFCDOOR /\ ~last.hiddenBefore
  /\ last.during = {IFCWALL}
  /\ toggles = <<>>
  /\ hiddenCategories = {IFCWALL, IFCDOOR}
  /\ FlagAgrees(IFCWALL) /\ FlagAgrees(IFCDOOR)

\* The multiplier of the last of the thresholds medium, large, very large
\* that maxDim exceeds, 1 when it exceeds none.
LastExceeded(maxDim, settings) ==
  LET thresholds == <<settings.mediumModelThreshold, settings.largeModelThreshold,
                      settings.veryLargeModelThreshold>>
      multipliers == <<2, 3, 4>>
      exceeded == {k \in 1..3 : maxDim > thresholds[k]}
  IN  IF exceeded = {} THEN 1
      ELSE multipliers[CHOOSE k \in exceeded : \A j \in exceeded : j <= k]

\* C23: the scale of a close or far fit is the multiplier of the last
\* threshold, in the order medium (2), large (3), very large (4), that maxDim
\* strictly exceeds, 1 if it exceeds none, whatever the thresholds' order;
\* the final distance is the base distance times that one multiplier.
C23_LastExceededThresholdScales ==
  CloseOrFarFit
    => /\ fitLog.scale = LastExceeded(fitLog.maxDim, cameraSettings)
       /\ fitLog.distance = fitLog.base * fitLog.scale

C23_Witness ==
  /\ CloseOrFarFit
  /\ fitLog.maxDim = cameraSettings.veryLargeModelThreshold
  /\ cameraSettings.mediumModelThreshold > cameraSettings.largeModelThreshold
  /\ fitLog.maxDim > cameraSettings.mediumModelThreshold
  /\ fitLog.scale = 3

\* The query <<place of the model, index of the variation>> yields items.
Yields(q, category) ==
  GetItemsOfCategories(loadedModels[q[1]], Variations(category)[q[2]]) # {}

\* C24: after an empty primary resolution the fallback queries the
\* variations in the fixed order (the name as given, lower-cased, without
\* 'IFC', without 'IFC' and lower-cased), model by model; it acts on the
\* first query that yields an element, on that model's elements of that
\* variation only, and queries nothing after it.
C24_FirstYieldingVariationWins ==
  [][\A c \in ButtonCategories :
       (ToggleCategoryVisibility(c, FALSE) /\ last'.route \in {"fallback", "none"})
         => LET q == last'.tried
                n == Len(q)
            IN  /\ Variations(IFCWALL) =
                     <<IFCWALL, LowerWall, BareWall, <<"w", "a", "l", "l">>>>
                /\ \A a \in 1..n :
                     /\ q[a][2] = IF a = 1 \/ q[a - 1][1] # q[a][1] THEN 1
                                  ELSE q[a - 1][2] + 1
                     /\ a > 1 => q[a - 1][1] <= q[a][1]
                     /\ a < n => ~Yields(q[a], c)
                /\ IF last'.route = "none"
                   THEN /\ \A a \in 1..n : ~Yields(q[a], c)
                        /\ hiddenItems' = hiddenItems
                   ELSE /\ n > 0 /\ Yields(q[n], c)
                        /\ LET h   == loadedModels[q[n][1]].model
                               won == GetItemsOfCategories(loadedModels[q[n][1]],
                                                           Variations(c)[q[n][2]])
                           IN  \A k \in Handles :
                                 \A id \in (hiddenItems'[k] \ hiddenItems[k])
                                             \cup (hiddenItems[k] \ hiddenItems'[k]) :
                                   k = h /\ id \in won]_vars

C24_Witness ==
  /\ last.op = "toggle" /\ last.route = "fallback" /\ last.cat = IFCWALL
  /\ last.tried = << <<1, 1>>, <<1, 2>> >>
  /\ loadedModels[1].fileName = "shell"
  /\ hiddenItems[1] = {1}

\* C25: a raycast that throws is caught for its model and the click goes on
\* with the next model: a click that met a throwing raycast ends showing the
\* element of the first later model that reports a hit, and the placeholder
\* when no later model does; it always ends in one of the two.
C25_RaycastFailureSkipsModel ==
  [][\A k \in 1..MaxPicks :
       (PickEnds(k) /\ \E a \in 1..Len(picks[k].queried) :
                         picks[k].ray[picks[k].queried[a]] = "throws")
         => LET p     == picks[k]
                threw == {j \in 1..Len(p.models) :
                            /\ \E a \in 1..Len(p.queried) : p.queried[a] = j
                            /\ p.ray[j] = "throws"}
                later == {j \in 1..Len(p.models) :
                            /\ j > SetMin(threw)
                            /\ Has(p.models[j], "raycast")
                            /\ p.ray[j] = "hit"}
            IN  IF later = {}
                THEN propertiesContent' = Panel("nothing", "", 0)
                ELSE propertiesContent' =
                       Panel("component", p.models[SetMin(later)].fileName,
                             HitItem(p.models[SetMin(later)]))]_vars

C25_Witness ==
  /\ propertiesContent = Panel("component", "annex", 1)
  /\ newestPick = "hit"
  /\ picks = <<>>
  /\ Len(loadedModels) = 2
  /\ loadedModels[1].fileName = "cube" /\ loadedModels[2].fileName = "annex"

\* The elements named category in the models, as <<handle, local id>>.
CategoryElements(category, models) ==
  {x \in Handles \X (1..3) :
     \E i \in 1..Len(models) :
       /\ models[i].model = x[1]
       /\ x[2] \in GetItemsOfCategories(models[i], category)}

\* The registry flag of the category is set exactly when the models have
\* elements of the category and all of them are hidden.
RegistryMatchesDisplay(category, registry, models, hidden) ==
  IsHidden(category, registry)
    = /\ CategoryElements(category, models) # {}
      /\ \A x \in CategoryElements(category, models) : x[2] \in hidden[x[1]]

\* C26: without showAll/hideAll the registry flag of a category is set
\* exactly when the loaded models' elements of the category are hidden; in
\* particular a load of a new file, a removal or a clear that starts where
\* the registry matches what is displayed ends where every category that has
\* elements still does.
C26_RegistryFollowsLoads ==
  [][(/\ \/ \E f \in FileNames \ {e.fileName : e \in Entries} :
              LoadFragmentFile(f, TRUE)
         \/ \E h \in Handles : RemoveModel(h)
         \/ ClearAllFragments
      /\ \A c \in ButtonCategories :
           RegistryMatchesDisplay(c, hiddenCategories, loadedModels, hiddenItems))
       => \A c \in ButtonCategories :
            CategoryElements(c, loadedModels') # {}
              => RegistryMatchesDisplay(c, hiddenCategories', loadedModels',
                                        hiddenItems')]_vars

\* The items of the loaded-files list and the entries of the collection
\* correspond one-to-one.
ListMatchesCollection ==
  /\ Len(loadedFiles) = Len(loadedModels)
  /\ \A e \in Entries :
       Cardinality({i \in 1..Len(loadedFiles) : loadedFiles[i] = e}) = 1

\* C27: every step that leaves no load suspended leaves the loaded-files
\* list in one-to-one correspondence with the loaded-model collection, also
\* after removals and clears issued while loads were suspended; and the count
\* of a 'Loaded' status is the size of the collection, which holds the model
\* just loaded.
C27_ListFollowsCollection ==
  [][/\ loads' = <<>> => ListMatchesCollection'
     /\ \A k \in 1..MaxLoads :
          LoadContinues(k)
            => /\ loads[k].model \in HandlesInUse
               /\ status'.kind = "loaded"
               /\ status'.count = Len(loadedModels')]_vars

\* C28: once a wait has resolved through a readiness check, by child
\* geometry or by a non-empty merged box, it schedules no further poll and
\* never emits the timeout warning.
C28_ResolvedWaitStopsPolling ==
  [][(/\ ready.resolved /\ ready.resolvedBy \in {"poll", "merged"}
      /\ ready'.phase # "idle")
       => /\ ready'.due = ready.due
          /\ ~ready'.inFlight \/ ready.inFlight
          /\ ~ready'.timeoutWarned]_vars

\* C29: a click that ends by displaying an element displays an element of a
\* model that is in the loaded-model collection at that moment, also when
\* models were removed or cleared while the click was suspended.
C29_DisplayedModelIsLoaded ==
  [][\A k \in 1..MaxPicks :
       (PickEnds(k) /\ propertiesContent'.kind = "component")
         => picks[k].models[picks[k].at].model \in HandlesInUse]_vars

====
